---- MODULE Spec2Model ----
(***************************************************************************)
(* Model of src/index.py, a Streamlit script.  Streamlit re-executes the   *)
(* whole script top to bottom after every widget interaction; the only     *)
(* state that survives a rerun is st.session_state and the values of the   *)
(* widgets that the previous run rendered.  Every action below is one user *)
(* interaction followed by one complete script run.  An exception that     *)
(* escapes the script ends the run; the Streamlit script runner displays   *)
(* it in the page (the element "Exception") and the session goes on.  A    *)
(* widget that a run which finished without exception did not create       *)
(* loses its value; a button is True only in the run its click triggered.  *)
(*                                                                         *)
(* Representation:                                                         *)
(*   - a CSV cell is its text, a sequence of one-character strings;        *)
(*   - a data frame is [columns, values], values a sequence of rows;       *)
(*   - a float that the code computes as a quotient is kept exact as a     *)
(*     pair <<numerator, denominator>>; slider values are hundredths;      *)
(*   - Python None is the reserved string None for the username and the    *)
(*     frame NoFrame for a missing upload.                                 *)
(***************************************************************************)
EXTENDS Integers, Sequences, FiniteSets, TLC

VARIABLES
    username,           \* st.session_state.username
    text,               \* value of the "Enter a username" text_input
    uploaded_file,      \* value of the file_uploader (parsed CSV or NoFrame)
    min_support,        \* value of the "Minimum Support" slider (hundredths)
    metric,             \* value of the metric selectbox
    threshold,          \* value of the "Threshold" slider (hundredths)
    rendered,           \* widgets the last run rendered
    shown,              \* elements the last run displayed
    data,               \* local `data` at the end of the last run
    preprocessed_data,  \* local `preprocessed_data` of the last run
    frequent_itemsets,  \* local `frequent_itemsets` of the last run
    rules,              \* local `rules` of the last run
    err,                \* exception that ended the last run, or "none"
    event,              \* the button whose click triggered the last run, or
                        \* "none"
    earlier             \* history: the first pipeline run of the session, its
                        \* inputs and results

vars == <<username, text, uploaded_file, min_support, metric, threshold,
          rendered, shown, data, preprocessed_data, frequent_itemsets,
          rules, err, event, earlier>>

(***************************************************************************)
(* Bounds                                                                  *)
(***************************************************************************)
MaxRows == 3

(***************************************************************************)
(* Values                                                                  *)
(***************************************************************************)
None == "<None>"

Truthy(s) == s # None /\ s # ""

NoFrame == [columns |-> <<>>, values |-> <<>>]

NoRun == [file |-> NoFrame, min_support |-> 0, metric |-> "", threshold |-> 0,
          frequent_itemsets |-> {}, rules |-> {}, err |-> "none",
          between |-> FALSE]

SeqToSet(s) == {s[i] : i \in 1..Len(s)}

ColIndex(df, c) == CHOOSE j \in 1..Len(df.columns) : df.columns[j] = c

HasColumn(df, c) == c \in SeqToSet(df.columns)

NRows(df) == Len(df.values)

(***************************************************************************)
(* Widget parameters                                                       *)
(***************************************************************************)
MinSupportMax == 100

MinSupportDefault == 5

ThresholdMin == 10

ThresholdMax == 100

ThresholdDefault == 50

Metrics == <<"support", "confidence", "lift">>

MetricDefault == Metrics[1]

(***************************************************************************)
(* pd.to_numeric(errors="coerce"), fillna(0), applymap                     *)
(***************************************************************************)
DigitVal == [c \in {"0", "1", "2", "3", "4", "5", "6", "7", "8", "9"} |->
               CASE c = "0" -> 0 [] c = "1" -> 1 [] c = "2" -> 2 [] c = "3" -> 3
                 [] c = "4" -> 4 [] c = "5" -> 5 [] c = "6" -> 6 [] c = "7" -> 7
                 [] c = "8" -> 8 [] c = "9" -> 9]

NaN == [nan |-> TRUE, v |-> 0]

Num(n) == [nan |-> FALSE, v |-> n]

RECURSIVE Horner(_, _)
Horner(ds, acc) ==
    IF ds = <<>> THEN acc
    ELSE Horner(Tail(ds), 10 * acc + DigitVal[Head(ds)])

to_numeric(tok) ==
    LET neg == tok # <<>> /\ Head(tok) = "-"
        ds  == IF neg THEN Tail(tok) ELSE tok
    IN  IF ds = <<>> \/ \E i \in 1..Len(ds) : ds[i] \notin DOMAIN DigitVal
        THEN NaN
        ELSE Num(IF neg THEN 0 - Horner(ds, 0) ELSE Horner(ds, 0))

fillna(x) == IF x.nan THEN Num(0) ELSE x

BinarizeNonNegative(x) == IF x.v >= 0 THEN 1 ELSE 0

Binarize(x) == IF x.v > 0 THEN 1 ELSE 0

preprocess_data(df) ==
    [columns |-> df.columns,
     values  |-> [i \in 1..Len(df.values) |->
                    [j \in 1..Len(df.values[i]) |->
                       Binarize(fillna(to_numeric(df.values[i][j])))]]]

(***************************************************************************)
(* pd.cut(data["Age"], bins, labels) and the "Age Group" column            *)
(***************************************************************************)
AgeBins == <<0, 18, 30, 45, 60, 100>>

AgeLabels == << <<"0", "-", "1", "8">>, <<"1", "9", "-", "3", "0">>,
                <<"3", "1", "-", "4", "5">>, <<"4", "6", "-", "6", "0">>,
                <<"6", "0", "+">> >>

\* read_csv gives a numeric column when every cell is a number or missing,
\* and a column of strings otherwise.
IsNumericColumn(df, c) ==
    \A i \in 1..NRows(df) :
        LET tok == df.values[i][ColIndex(df, c)]
        IN  tok = <<>> \/ ~to_numeric(tok).nan

\* pd.cut compares the values with the integer bin edges: a column of
\* strings raises TypeError.
CutRaises(df) == ~IsNumericColumn(df, "Age")

AgeCodes == << <<"0">>, <<"1">>, <<"2">>, <<"3">>, <<"4">> >>

CutCode(tok) ==
    LET x == to_numeric(tok)
    IN  IF x.nan \/ x.v <= AgeBins[1] \/ x.v > AgeBins[Len(AgeBins)]
        THEN <<>>
        ELSE AgeCodes[CHOOSE k \in 1..Len(AgeLabels) :
                          AgeBins[k] < x.v /\ x.v <= AgeBins[k + 1]]

Cut(tok) ==
    LET x == to_numeric(tok)
    IN  IF x.nan \/ x.v <= AgeBins[1] \/ x.v > AgeBins[Len(AgeBins)]
        THEN <<>>
        ELSE AgeLabels[CHOOSE k \in 1..Len(AgeLabels) :
                           AgeBins[k] < x.v /\ x.v <= AgeBins[k + 1]]

\* data["Age Group"] = ...: replaces the column when it exists, appends it
\* otherwise.
AddAgeGroup(df) ==
    LET a == ColIndex(df, "Age")
    IN  IF HasColumn(df, "Age Group")
        THEN [columns |-> df.columns,
              values  |-> [i \in 1..NRows(df) |->
                             [j \in 1..Len(df.columns) |->
                                IF j = ColIndex(df, "Age Group")
                                THEN Cut(df.values[i][a])
                                ELSE df.values[i][j]]]]
        ELSE [columns |-> Append(df.columns, "Age Group"),
              values  |-> [i \in 1..NRows(df) |->
                             Append(df.values[i], Cut(df.values[i][a]))]]

(***************************************************************************)
(* Exact quotients                                                         *)
(***************************************************************************)
RatDiv(a, b) == <<a[1] * b[2], a[2] * b[1]>>

\* a >= pct/100; a quotient with denominator 0 is NaN and compares False
RatGeq(a, pct) == a[2] # 0 /\ a[1] * 100 >= pct * a[2]

RatEq(a, b) == a[2] # 0 /\ b[2] # 0 /\ a[1] * b[2] = b[1] * a[2]

(***************************************************************************)
(* mlxtend.frequent_patterns.apriori(X, min_support, use_colnames=True)    *)
(***************************************************************************)
SetMax(S) == CHOOSE m \in S : \A x \in S : x <= m

\* _support: column sums of the rows in which every item of c is present,
\* divided by the number of rows
Support(X, c) ==
    <<Cardinality({i \in 1..NRows(X) : \A j \in c : X.values[i][j] = 1}),
      NRows(X)>>

IsFrequentStrict(X, c, minsup) ==
    LET s == Support(X, c) IN s[2] # 0 /\ s[1] * 100 > minsup * s[2]

IsFrequent(X, c, minsup) == RatGeq(Support(X, c), minsup)

\* generate_new_combinations: every surviving combination is extended by
\* each item that occurs in a surviving combination and is larger than its
\* largest item
generate_new_combinations(old) ==
    LET valid == UNION old
    IN  {c \cup {j} : <<c, j>> \in {p \in old \X valid : p[2] > SetMax(p[1])}}

RECURSIVE AprioriLevels(_, _, _, _)
AprioriLevels(X, level, acc, minsup) ==
    IF level = {} THEN acc
    ELSE LET next == {c \in generate_new_combinations(level) :
                         IsFrequent(X, c, minsup)}
         IN  AprioriLevels(X, next, acc \cup next, minsup)

apriori(X, minsup) ==
    LET singles == {{j} : j \in {k \in 1..Len(X.columns) :
                                    IsFrequent(X, {k}, minsup)}}
        found   == AprioriLevels(X, singles, singles, minsup)
    IN  {[itemsets |-> {X.columns[j] : j \in c}, support |-> Support(X, c)] :
            c \in found}

(***************************************************************************)
(* mlxtend.frequent_patterns.association_rules(df, num_itemsets, metric,   *)
(* min_threshold)                                                          *)
(***************************************************************************)
InDict(fi, A) == \E r \in fi : r.itemsets = A

SupportOf(fi, A) == (CHOOSE r \in fi : r.itemsets = A).support

\* metric_dict: "support" -> sAC, "confidence" -> sAC/sA,
\* "lift" -> confidence/sC
Score(m, sAC, sA, sC) ==
    CASE m = "support"    -> sAC
      [] m = "confidence" -> RatDiv(sAC, sA)
      [] m = "lift"       -> RatDiv(RatDiv(sAC, sA), sC)

Splits(fi) ==
    {<<r.itemsets, A>> : <<r, A>> \in
        {p \in fi \X SUBSET (UNION {q.itemsets : q \in fi}) :
            p[2] # {} /\ p[2] \subseteq p[1].itemsets /\ p[2] # p[1].itemsets}}

\* "ValueError" on an empty frame of itemsets, "KeyError" when the support
\* of an antecedent or consequent is missing, "none" otherwise
association_rules_raises(fi) ==
    IF fi = {} THEN "ValueError"
    ELSE IF \E p \in Splits(fi) : ~InDict(fi, p[2]) \/ ~InDict(fi, p[1] \ p[2])
         THEN "KeyError"
         ELSE "none"

association_rules(fi, m, min_threshold) ==
    {[antecedents |-> p[2],
      consequents |-> p[1] \ p[2],
      support     |-> SupportOf(fi, p[1]),
      confidence  |-> RatDiv(SupportOf(fi, p[1]), SupportOf(fi, p[2])),
      lift        |-> RatDiv(RatDiv(SupportOf(fi, p[1]), SupportOf(fi, p[2])),
                             SupportOf(fi, p[1] \ p[2]))] :
        p \in {q \in Splits(fi) :
                 RatGeq(Score(m, SupportOf(fi, q[1]), SupportOf(fi, q[2]),
                              SupportOf(fi, q[1] \ q[2])), min_threshold)}}

\* DataFrame.plot(kind="bar") on the empty frame that association_rules
\* returns when no rule passes: TypeError("no numeric data to plot")
PlotRaisesAlways(rs) == TRUE

PlotRaises(rs) == rs = {}

(***************************************************************************)
(* The script, lines 75-205                                                *)
(***************************************************************************)
Blank == [shown |-> {}, rendered |-> {}, data |-> NoFrame,
          preprocessed_data |-> NoFrame, frequent_itemsets |-> {},
          rules |-> {}, err |-> "none"]

AcceptsAnyText(txt) == TRUE

\* line 83: if username:
AcceptsText(txt) == Truthy(txt)

\* lines 80-91; click is the button pressed to trigger this run
LoginSection(u, txt, click) ==
    IF ~Truthy(u)
    THEN IF click = "LogIn"
         THEN IF AcceptsText(txt)
              THEN [username |-> txt, shown |-> {"LoginSuccess"},
                    rendered |-> {"text_input", "LogIn"}]
              ELSE [username |-> u, shown |-> {"LoginError"},
                    rendered |-> {"text_input", "LogIn"}]
         ELSE [username |-> u, shown |-> {},
               rendered |-> {"text_input", "LogIn"}]
    ELSE IF click = "LogOut"
         THEN [username |-> None, shown |-> {"LoggedInAs"},
               rendered |-> {"LogOut"}]
         ELSE [username |-> u, shown |-> {"LoggedInAs"},
               rendered |-> {"LogOut"}]

MainGateOpen(u) == TRUE

\* line 94: if st.session_state.username:
MainGate(u) == Truthy(u)

TransactionKey == "InvoiceNo"

HasUploadWithKey(f) == f # NoFrame /\ HasColumn(f, TransactionKey)

\* line 99: if uploaded_file is not None:
HasUpload(f) == f # NoFrame

PipelineWidgets == {"file_uploader", "min_support", "metric", "threshold"}

CachedItemsets(X, minsup) ==
    IF "ItemsetTable" \in shown /\ minsup = min_support
    THEN frequent_itemsets
    ELSE apriori(X, minsup)

\* line 164
Itemsets(X, minsup) == apriori(X, minsup)

\* lines 179-200: network diagram, bar chart, recommendations
Visualise(base, rs) ==
    IF PlotRaises(rs)
    THEN [base EXCEPT !.shown = @ \cup {"RuleTable", "NetworkDiagram",
                                        "Exception"},
                      !.rules = rs, !.err = "TypeError:195"]
    ELSE [base EXCEPT !.shown = @ \cup {"RuleTable", "NetworkDiagram",
                                        "BarChart", "Recommendations"},
                      !.rules = rs]

\* lines 167-177
GenerateRules(base, raised, m, t) ==
    IF raised = "ValueError"
    THEN [base EXCEPT !.shown = @ \cup {"Exception"}, !.err = "ValueError:176"]
    ELSE IF raised = "KeyError"
         THEN [base EXCEPT !.shown = @ \cup {"Exception"},
                           !.err = "KeyError:176"]
         ELSE Visualise(base, association_rules(base.frequent_itemsets, m, t))

\* lines 161-165
MineItemsets(d, sh, X, fi, m, t) ==
    GenerateRules([shown |-> sh \cup {"Dimensions", "BinaryMatrixTable",
                                      "ItemsetTable"},
                   rendered |-> PipelineWidgets, data |-> d,
                   preprocessed_data |-> X, frequent_itemsets |-> fi,
                   rules |-> {}, err |-> "none"],
                  association_rules_raises(fi), m, t)

\* lines 156-159
Preprocess(d, sh, X, s, m, t) == MineItemsets(d, sh, X, Itemsets(X, s), m, t)

\* lines 134-200, d is `data` after the charts
Mining(d, sh, s, m, t) == Preprocess(d, sh, preprocess_data(d), s, m, t)

\* lines 100-200
Pipeline(f, s, m, t) ==
    LET head == {"Welcome", "PreviewTable"} \cup
                (IF HasColumn(f, "Sex") THEN {"SexChart"} ELSE {"SexWarning"})
    IN  IF HasColumn(f, "Age")
        THEN IF CutRaises(f)
             THEN [Blank EXCEPT !.shown = head \cup {"AgeHeading", "Exception"},
                                !.rendered = {"file_uploader"},
                                !.data = f, !.err = "TypeError:122"]
             ELSE Mining(AddAgeGroup(f), head \cup {"AgeHeading", "AgeChart"},
                         s, m, t)
        ELSE Mining(f, head \cup {"AgeWarning"}, s, m, t)

\* lines 94-205
Main(u, f, s, m, t) ==
    IF ~MainGate(u)
    THEN [Blank EXCEPT !.shown = {"PleaseLogIn"}]
    ELSE IF ~HasUpload(f)
         THEN [Blank EXCEPT !.shown = {"PleaseUpload"},
                            !.rendered = {"file_uploader"}]
         ELSE Pipeline(f, s, m, t)

Snapshot(f, s, m, t, out) ==
    [file |-> f, min_support |-> s, metric |-> m, threshold |-> t,
     frequent_itemsets |-> out.frequent_itemsets, rules |-> out.rules,
     err |-> out.err, between |-> FALSE]

\* The end of a run: a widget that a run which finished without exception
\* did not render loses its value.
Finish(login, main, txt, f, s, m, t) ==
    [username |-> login.username,
     text |-> IF main.err # "none" \/ "text_input" \in login.rendered
              THEN txt ELSE "",
     uploaded_file |-> IF main.err # "none" \/ "file_uploader" \in main.rendered
                       THEN f ELSE NoFrame,
     min_support |-> IF main.err # "none" \/ "min_support" \in main.rendered
                     THEN s ELSE MinSupportDefault,
     metric |-> IF main.err # "none" \/ "metric" \in main.rendered
                THEN m ELSE MetricDefault,
     threshold |-> IF main.err # "none" \/ "threshold" \in main.rendered
                   THEN t ELSE ThresholdDefault,
     rendered |-> login.rendered \cup main.rendered,
     shown |-> login.shown \cup main.shown,
     data |-> main.data,
     preprocessed_data |-> main.preprocessed_data,
     frequent_itemsets |-> main.frequent_itemsets,
     rules |-> main.rules,
     err |-> main.err]

AfterLogin(login, txt, f, s, m, t) ==
    Finish(login, Main(login.username, f, s, m, t), txt, f, s, m, t)

\* One complete script run, started with session username u, the given
\* button click and the given widget values: the session state, widget
\* values and outputs it leaves.
After(u, click, txt, f, s, m, t) ==
    AfterLogin(LoginSection(u, txt, click), txt, f, s, m, t)

Becomes(a, click, f, s, m, t) ==
    /\ username' = a.username
    /\ text' = a.text
    /\ uploaded_file' = a.uploaded_file
    /\ min_support' = a.min_support
    /\ metric' = a.metric
    /\ threshold' = a.threshold
    /\ rendered' = a.rendered
    /\ shown' = a.shown
    /\ data' = a.data
    /\ preprocessed_data' = a.preprocessed_data
    /\ frequent_itemsets' = a.frequent_itemsets
    /\ rules' = a.rules
    /\ err' = a.err
    /\ event' = click
    /\ earlier' = IF earlier = NoRun
                   THEN IF "PreviewTable" \in a.shown
                        THEN Snapshot(f, s, m, t, a)
                        ELSE earlier
                   ELSE IF <<f, s, m, t>> # <<earlier.file,
                               earlier.min_support, earlier.metric,
                               earlier.threshold>>
                        THEN [earlier EXCEPT !.between = TRUE]
                        ELSE earlier

Rerun(click, txt, f, s, m, t) ==
    Becomes(After(username, click, txt, f, s, m, t), click, f, s, m, t)

(***************************************************************************)
(* Inputs                                                                  *)
(***************************************************************************)
Texts == {"", "ann", "bob"}

MinSupports == {MinSupportDefault, 34, 50, MinSupportMax}

Thresholds == {ThresholdMin, ThresholdDefault, ThresholdMax}

Scenario ==
    [columns |-> <<"milk", "bread", "eggs">>,
     values  |-> << << <<"1">>, <<"1">>, <<"0">> >>,
                    << <<"2">>, <<"1">>, <<"1">> >>,
                    << <<"0">>, <<"1">>, <<>> >>,
                    << <<"1">>, <<"0">>, <<"0">> >> >>]

Titanic ==
    [columns |-> <<"Sex", "Age", "Survived", "Pclass">>,
     values  |-> << << <<"m">>, <<"2", "2">>, <<"0">>, <<"3">> >>,
                    << <<"f">>, <<"3", "8">>, <<"1">>, <<"1">> >>,
                    << <<"f">>, <<>>, <<"1">>, <<"3">> >> >>]

BadAge ==
    [columns |-> <<"Age", "milk">>,
     values  |-> << << <<"x">>, <<"1">> >>,
                    << <<"3", "0">>, <<"1">> >> >>]

Invoices ==
    [columns |-> <<"InvoiceNo", "milk", "bread">>,
     values  |-> << << <<"5", "3", "6">>, <<"1">>, <<"0">> >>,
                    << <<"5", "3", "7">>, <<"1">>, <<"3">> >> >>]

Grouped ==
    [columns |-> <<"Age Group", "milk">>,
     values  |-> << << <<"1">>, <<"1">> >>,
                    << <<"2">>, <<"1">> >> >>]

Regrouped ==
    [columns |-> <<"Age", "Age Group", "milk">>,
     values  |-> << << <<"2", "5">>, <<"1">>, <<"1">> >>,
                    << <<"7", "0">>, <<"1">>, <<"1">> >> >>]

Sparse ==
    [columns |-> <<"milk", "bread">>,
     values  |-> << << <<"1">>, <<"1">> >>,
                    << <<"0">>, <<"0">> >>,
                    << <<"-", "1">>, <<"x">> >> >>]

HeaderOnly == [columns |-> <<"milk", "bread">>, values |-> <<>>]

Catalogue == {Scenario, Titanic, BadAge, Invoices, Grouped, Regrouped,
              Sparse, HeaderOnly}

Frames(cols, toks, maxrows) ==
    {[columns |-> cols, values |-> v] :
        v \in UNION {[1..n -> [1..Len(cols) -> toks]] : n \in 0..maxrows}}

MaxRawRows == 2

RawTokens == {<<>>, <<"0">>, <<"1", "2">>, <<"-", "1">>, <<"x">>}

RawFiles == Frames(<<"milk", "bread">>, RawTokens, MaxRawRows)

BinaryFiles == Frames(<<"milk", "bread", "eggs">>, {<<"0">>, <<"1">>}, MaxRows)

(***************************************************************************)
(* Initial states                                                          *)
(***************************************************************************)
StateIs(a, first) ==
    /\ username = a.username
    /\ text = a.text
    /\ uploaded_file = a.uploaded_file
    /\ min_support = a.min_support
    /\ metric = a.metric
    /\ threshold = a.threshold
    /\ rendered = a.rendered
    /\ shown = a.shown
    /\ data = a.data
    /\ preprocessed_data = a.preprocessed_data
    /\ frequent_itemsets = a.frequent_itemsets
    /\ rules = a.rules
    /\ err = a.err
    /\ event = "none"
    /\ earlier = first

\* lines 76-77 and the first run of a new session
Init ==
    StateIs(After(None, "none", "", NoFrame, MinSupportDefault, MetricDefault,
                  ThresholdDefault), NoRun)

\* a session in which "ann" is logged in and has just uploaded f
UploadedAs(f, a) ==
    StateIs(a, Snapshot(f, MinSupportDefault, MetricDefault, ThresholdDefault,
                        a))

Uploaded(f) ==
    UploadedAs(f, After("ann", "none", "", f, MinSupportDefault, MetricDefault,
                        ThresholdDefault))

InitRaw == \E f \in RawFiles : Uploaded(f)

InitBinary == \E f \in BinaryFiles : Uploaded(f)

(***************************************************************************)
(* Actions: one interaction and the rerun it triggers                      *)
(***************************************************************************)
TypeUsername ==
    /\ "text_input" \in rendered
    /\ \E txt \in Texts :
          /\ txt # text
          /\ Rerun("none", txt, uploaded_file, min_support, metric, threshold)

ClickLogIn ==
    /\ "LogIn" \in rendered
    /\ Rerun("LogIn", text, uploaded_file, min_support, metric, threshold)

ClickLogOut ==
    /\ "LogOut" \in rendered
    /\ Rerun("LogOut", text, uploaded_file, min_support, metric, threshold)

Upload ==
    /\ "file_uploader" \in rendered
    /\ \E f \in Catalogue \cup {NoFrame} :
          /\ f # uploaded_file
          /\ Rerun("none", text, f, min_support, metric, threshold)

SetMinSupport ==
    /\ "min_support" \in rendered
    /\ \E s \in MinSupports :
          /\ s # min_support
          /\ Rerun("none", text, uploaded_file, s, metric, threshold)

SetMetric ==
    /\ "metric" \in rendered
    /\ \E m \in SeqToSet(Metrics) :
          /\ m # metric
          /\ Rerun("none", text, uploaded_file, min_support, m, threshold)

SetThreshold ==
    /\ "threshold" \in rendered
    /\ \E t \in Thresholds :
          /\ t # threshold
          /\ Rerun("none", text, uploaded_file, min_support, metric, t)

Next ==
    \/ TypeUsername
    \/ ClickLogIn
    \/ ClickLogOut
    \/ Upload
    \/ SetMinSupport
    \/ SetMetric
    \/ SetThreshold

Spec == Init /\ [][Next]_vars

SpecRaw == InitRaw /\ [][SetMinSupport]_vars

SpecBinary == InitBinary /\ [][SetMinSupport]_vars

(***************************************************************************)
(* Properties                                                              *)
(***************************************************************************)
LoggedIn == Truthy(username)

PipelineRan == "PreviewTable" \in shown

MatrixBuilt == "BinaryMatrixTable" \in shown

MinerRan == "ItemsetTable" \in shown

Tables == {"PreviewTable", "BinaryMatrixTable", "ItemsetTable", "RuleTable"}

SidebarElements == {"LoginSuccess", "LoginError", "LoggedInAs"}

LoginWidgets == {"text_input", "LogIn", "LogOut"}

\* the text of a number greater than zero: digits only, not all of them 0
PositiveNumber(tok) ==
    /\ tok # <<>>
    /\ \A i \in 1..Len(tok) :
          tok[i] \in {"0", "1", "2", "3", "4", "5", "6", "7", "8", "9"}
    /\ \E i \in 1..Len(tok) : tok[i] # "0"

\* C1: the binary matrix has the rows and columns of the data frame it was
\* built from, every cell is 0 or 1, and a cell is 1 exactly when the
\* source cell is the text of a number greater than zero.
C1_BinaryEncoding ==
    MatrixBuilt =>
        /\ preprocessed_data.columns = data.columns
        /\ Len(preprocessed_data.values) = Len(data.values)
        /\ \A i \in 1..Len(data.values) :
              /\ Len(preprocessed_data.values[i]) = Len(data.columns)
              /\ \A j \in 1..Len(data.columns) :
                    /\ preprocessed_data.values[i][j] \in {0, 1}
                    /\ preprocessed_data.values[i][j] = 1
                          <=> PositiveNumber(data.values[i][j])

C1_Witness ==
    /\ MatrixBuilt
    /\ min_support = MinSupportMax
    /\ data.values = << << <<"1", "2">>, <<"x">> >>, << <<"-", "1">>, <<>> >> >>
    /\ preprocessed_data.values = << <<1, 0>>, <<0, 0>> >>

\* number of transactions of the binary matrix that contain every item of S
Containing(S) ==
    Cardinality({i \in 1..NRows(preprocessed_data) :
                    \A c \in S :
                        preprocessed_data.values[i]
                            [ColIndex(preprocessed_data, c)] = 1})

Items == SeqToSet(preprocessed_data.columns)

\* support(S) >= pct/100, support = Containing(S) / number of transactions
SupportAtLeast(S, pct) ==
    /\ NRows(preprocessed_data) > 0
    /\ Containing(S) * 100 >= pct * NRows(preprocessed_data)

\* C2: the itemset table holds exactly the non-empty itemsets whose support
\* is at least the minimum support, each with its support.
C2_FrequentItemsets ==
    MinerRan =>
        /\ {r.itemsets : r \in frequent_itemsets} =
              {S \in (SUBSET Items) \ {{}} : SupportAtLeast(S, min_support)}
        /\ \A r \in frequent_itemsets :
              r.support = <<Containing(r.itemsets), NRows(preprocessed_data)>>

C2_Witness ==
    /\ MinerRan
    /\ min_support = 50
    /\ \E r \in frequent_itemsets :
          /\ Cardinality(r.itemsets) = 2
          /\ r.support[1] * 100 = min_support * r.support[2]
    /\ \E c \in Items : \A r \in frequent_itemsets : r.itemsets # {c}

\* the pairs (A, I \ A) the rule step is to return
ExpectedRules ==
    {p \in (SUBSET Items) \X (SUBSET Items) :
        /\ p[1] # {} /\ p[2] # {} /\ p[1] \cap p[2] = {}
        /\ SupportAtLeast(p[1] \cup p[2], min_support)
        /\ CASE metric = "support" ->
                  Containing(p[1] \cup p[2]) * 100
                      >= threshold * NRows(preprocessed_data)
             [] metric = "confidence" ->
                  Containing(p[1] \cup p[2]) * 100
                      >= threshold * Containing(p[1])
             [] metric = "lift" ->
                  Containing(p[1] \cup p[2]) * NRows(preprocessed_data) * 100
                      >= threshold * Containing(p[1]) * Containing(p[2])}

RulesAsExpected ==
    /\ {<<r.antecedents, r.consequents>> : r \in rules} = ExpectedRules
    /\ \A r \in rules :
          /\ RatEq(r.confidence,
                   <<Containing(r.antecedents \cup r.consequents),
                     Containing(r.antecedents)>>)
          /\ RatEq(r.lift,
                   <<Containing(r.antecedents \cup r.consequents)
                        * NRows(preprocessed_data),
                     Containing(r.antecedents) * Containing(r.consequents)>>)

\* C3: for every collection of frequent itemsets the rule step returns
\* exactly the splits of the itemsets of size >= 2 whose selected metric is
\* at least the threshold, with confidence and lift as defined.
C3_RulesExact ==
    MinerRan => ("RuleTable" \in shown /\ RulesAsExpected)

\* the rule step on a non-empty collection of frequent itemsets
RulesExactWhenReturned ==
    (MinerRan /\ frequent_itemsets # {}) =>
        ("RuleTable" \in shown /\ RulesAsExpected)

\* C4: a run whose itemset step returns no itemsets gets an empty rule set
\* from the rule step and raises no error.
C4_EmptyItemsetsNoError ==
    (MinerRan /\ frequent_itemsets = {}) =>
        (err = "none" /\ "RuleTable" \in shown /\ rules = {})

LacksKey == LoggedIn /\ uploaded_file # NoFrame
            /\ ~HasColumn(uploaded_file, TransactionKey)

C7_Gate ==
    IF LoggedIn
    THEN "PleaseLogIn" \notin shown /\ "file_uploader" \in rendered
    ELSE /\ shown \ SidebarElements = {"PleaseLogIn"}
         /\ rendered \subseteq LoginWidgets
         /\ data = NoFrame /\ preprocessed_data = NoFrame
         /\ frequent_itemsets = {} /\ rules = {}

C7_Witness ==
    /\ ~LoggedIn
    /\ event = "LogOut"
    /\ earlier # NoRun
    /\ "PleaseLogIn" \in shown

SameInputsAsEarlier ==
    /\ PipelineRan
    /\ earlier # NoRun
    /\ uploaded_file = earlier.file
    /\ min_support = earlier.min_support
    /\ metric = earlier.metric
    /\ threshold = earlier.threshold

C9_UsernameChanges ==
    /\ username = None
    /\ [][/\ username' # ""
          /\ username' # username =>
                \/ /\ event' = "LogIn" /\ username = None /\ text # ""
                   /\ username' = text
                   /\ "file_uploader" \in rendered'
                   /\ "PleaseLogIn" \notin shown'
                \/ /\ event' = "LogOut" /\ Truthy(username)
                   /\ username' = None
                   /\ "PleaseLogIn" \in shown'
                   /\ "file_uploader" \notin rendered'
          /\ (event' = "LogIn" /\ username = None /\ text # "") =>
                username' = text
          /\ (event' = "LogIn" /\ username = None /\ text = "") =>
                (username' = None /\ "LoginError" \in shown')
          /\ (event' = "LogOut" /\ Truthy(username)) => username' = None
          /\ event' = "none" => username' = username]_vars

C9_Witness ==
    /\ username = "ann"
    /\ event = "LogIn"
    /\ "LoginSuccess" \in shown

\* C10: the matrix handed to the miner has the columns of the upload, plus
\* "Age Group" when the upload has an "Age" column; that column is all 0,
\* so "Age Group" occurs in no frequent itemset and in no rule.
C10_AgeGroupAbsent ==
    MatrixBuilt =>
        /\ preprocessed_data.columns =
              IF HasColumn(uploaded_file, "Age")
                 /\ ~HasColumn(uploaded_file, "Age Group")
              THEN Append(uploaded_file.columns, "Age Group")
              ELSE uploaded_file.columns
        /\ HasColumn(uploaded_file, "Age") =>
              /\ \A i \in 1..NRows(preprocessed_data) :
                    preprocessed_data.values[i]
                        [ColIndex(preprocessed_data, "Age Group")] = 0
              /\ \A r \in frequent_itemsets : "Age Group" \notin r.itemsets
              /\ \A r \in rules :
                    "Age Group" \notin r.antecedents \cup r.consequents

C10_Witness ==
    /\ MatrixBuilt
    /\ uploaded_file = Titanic
    /\ HasColumn(preprocessed_data, "Age Group")
    /\ \E r \in frequent_itemsets : "Age" \in r.itemsets
    /\ rules # {}

====
